---- MODULE Spec2Model ----
(***************************************************************************)
(* A model of the RF103 host library: the ADC streaming engine of          *)
(* src/src/adc.c (adc_open_async, adc_start, adc_stop and the completion   *)
(* callback adc_read_async_callback) and the firmware loader of            *)
(* usb_device.c (src/unnamed/part_000: validate_image).                    *)
(*                                                                         *)
(* The streaming engine is modelled with two contexts: the controlling     *)
(* context, which runs adc_start()/adc_stop(), and the event-processing    *)
(* context, in which libusb runs adc_read_async_callback, one callback at  *)
(* a time.  Every access to the shared fields of struct adc (status,       *)
(* active_transfers) and every libusb call is one step, so that the two    *)
(* contexts interleave as they do in the program.                          *)
(***************************************************************************)
EXTENDS Integers, Sequences, FiniteSets, TLC

\* Largest num_frames the streaming specification explores.
MaxFrames == 3

VARIABLES
  status,            \* adc_t.status: OFF (no engine), READY, STREAMING, CANCELLED, FAILED
  active_transfers,  \* adc_t.active_transfers (atomic_int)
  num_frames,        \* adc_t.num_frames
  frame_size,        \* adc_t.frame_size
  frames,            \* adc_t.frames: the zero-copy buffers, by allocation id
  transfers,         \* adc_t.transfers: the descriptors filled by libusb_fill_bulk_transfer
  flight,            \* libusb's view of each descriptor: idle, submitted, cancelling
  ctl,               \* the controlling context: position in adc_start/adc_stop, locals, last result
  cb,                \* the event-processing context: position in adc_read_async_callback
  readied,           \* CANCELLED -> READY transitions since adc_stop last wrote CANCELLED (capped at 2)
  devmem,            \* the zero-copy buffers libusb_dev_mem_alloc has handed out and not taken back
  open_call,         \* the arguments and the result of the last adc_open_async call, and what it returned
  drained,           \* cancelled completions delivered since an adc_stop that followed a
                     \* successful adc_start, while nothing else completed (-1: not counting)
  image,             \* the firmware image buffer load_image read
  image_size,        \* its size in bytes
  layout,            \* how the image was laid out when it was built
  validate_ret,      \* what validate_image returned for it (NotValidated: not called yet)
  flipped,           \* one data word of an accepted image was changed since
  xfer,              \* transfer_image: where it is, its locals, what it returned
  sent,              \* the control transfers transfer_image has issued, in order
  dev,               \* usb_device_open: where it is, its locals, what it did and returned
  bus,               \* the devices libusb_get_device_list reports, in order
  handles,           \* the device handles that are open
  asked,             \* the descriptors the callback running (or the last) asked libusb to cancel
  failed_in_start,   \* a callback reached line 277 since adc_start's first submission
  faults             \* since adc_start was last called, libusb reported a transfer
                     \* status other than completed or cancelled, or refused to
                     \* resubmit a transfer

vars == <<status, active_transfers, num_frames, frame_size, frames, transfers,
          flight, ctl, cb, readied, devmem, open_call, drained,
          image, image_size, layout, validate_ret, flipped, xfer, sent,
          dev, bus, handles, faults, asked, failed_in_start>>

history == <<asked, failed_in_start>>

opener == <<dev, bus, handles>>

loader == <<image, image_size, layout, validate_ret, flipped, xfer, sent, opener>>

engine == <<num_frames, frame_size, frames, transfers>>

(***************************************************************************)
(* libusb return codes and transfer statuses, as far as adc.c tells them   *)
(* apart: success, LIBUSB_ERROR_NOT_FOUND, LIBUSB_ERROR_BUSY and any other *)
(* negative code; LIBUSB_TRANSFER_COMPLETED, LIBUSB_TRANSFER_CANCELLED and *)
(* any other status (the default case of the callback's switch).           *)
(***************************************************************************)
IsError(ret) == ret # "SUCCESS"

Descriptors == 1..num_frames

InFlight(t) == flight[t] \in {"submitted", "cancelling"}

\* libusb_submit_transfer: a descriptor in flight is refused (busy); one that
\* is not may be accepted or refused by the host controller.
SubmitResults(t) == IF InFlight(t) THEN {"BUSY"} ELSE {"SUCCESS", "OTHER"}

\* libusb_cancel_transfer: not found unless the descriptor is in flight and
\* not yet cancelled; then the request is taken or fails with another error.
CancelResults(t) == IF flight[t] = "submitted" THEN {"SUCCESS", "OTHER"} ELSE {"NOT_FOUND"}

\* The statuses a descriptor in flight can complete with: cancelled only
\* after a cancellation request was taken.
CompletionStatuses(t) ==
  IF flight[t] = "cancelling" THEN {"COMPLETED", "CANCELLED", "ERROR"}
  ELSE {"COMPLETED", "ERROR"}

\* The controlling context.  pc: where it is; i, ret: the locals of the
\* function it runs; op, from, quiet: the function last called, the status
\* and whether no transfer was active when it was called; rv: what it returned.
CtlInit == [pc |-> "idle", i |-> 0, ret |-> "SUCCESS", op |-> "none", rv |-> 0,
            from |-> "OFF", quiet |-> FALSE]
Call(op, pc, from, quiet) ==
  [pc |-> pc, i |-> 0, ret |-> "SUCCESS", op |-> op, rv |-> 0, from |-> from, quiet |-> quiet]
Return(c, rv) == [c EXCEPT !.pc = "idle", !.rv = rv]

\* The event-processing context.  pc: where the callback is; t, st: the
\* descriptor it was called for and transfer->status; i: its loop counter;
\* seen: the engine status when libusb entered it; delivered: this->callback
\* was called and has returned.
CbIdle == [pc |-> "idle", t |-> 0, st |-> "NONE", i |-> 0, seen |-> "OFF", delivered |-> FALSE]
CbAt(pc, t, st, seen) ==
  [pc |-> pc, t |-> t, st |-> st, i |-> 0, seen |-> seen, delivered |-> FALSE]


(***************************************************************************)
(* 32-bit words.  A uint32_t is the pair <<high 16 bits, low 16 bits>>, so *)
(* that sums wrap at 2^32 as they do in C.                                 *)
(***************************************************************************)
Half == 65536
Zero == <<0, 0>>

\* a + b (mod 2^32)
Add32(a, b) == <<(a[1] + b[1] + ((a[2] + b[2]) \div Half)) % Half, (a[2] + b[2]) % Half>>

\* a - b (mod 2^32)
Sub32(a, b) ==
  <<(a[1] - b[1] - (IF a[2] < b[2] THEN 1 ELSE 0) + Half) % Half, (a[2] - b[2] + Half) % Half>>

\* w * n (mod 2^32), for a count n that fits 15 bits
Mul32(w, n) == <<(w[1] * n + ((w[2] * n) \div Half)) % Half, (w[2] * n) % Half>>

\* The buffer is kept sparsely: word k (bytes 4k .. 4k+3) is at[k] where
\* that is given, and base everywhere else.
WordAt(img, k) == IF k \in DOMAIN img.at THEN img.at[k] ELSE img.base

\* image[n], on a little-endian host.
ByteAt(img, n) ==
  LET w == WordAt(img, n \div 4)
      h == IF n % 4 < 2 THEN w[2] ELSE w[1]
  IN IF n % 2 = 0 THEN h % 256 ELSE h \div 256

\* What validate_image reports: its return value, the message it printed
\* and whether it printed the warning; read: how far into the buffer it has
\* read, as the offset of the byte after the last one read.
Verdict(ret, why, warning) == [ret |-> ret, why |-> why, warning |-> warning, read |-> 0]
ReadTo(v, n) == [v EXCEPT !.read = n]
NotValidated == Verdict(1, "not called", FALSE)

\* transfer_image before it is called.  pc: where it is; current: the word
\* it reads next; loadSz, address, data, nleft: its locals (data in bytes
\* from the start of the image); rv: what it returned.
NoTransfer == [pc |-> "none", current |-> 0, loadSz |-> 0, address |-> Zero, data |-> 0,
               nleft |-> 0, rv |-> 0]

\* usb_device_open.  pc: where it is; index: its argument; handle,
\* needs_firmware: its locals; ret: what it returned and this, the handle in
\* the usb_device_t it returned; loads: the load_image calls it made and
\* load_ret what the last returned; found: what each find_usb_device call
\* found (NoDevice, or the identity of the device).
NoHandle == [pos |-> 0, vid |-> 0, pid |-> 0]
NoDevice == [vid |-> 0, pid |-> 0]
OpenerAt(pc) ==
  [pc |-> pc, index |-> 0, handle |-> NoHandle, needs_firmware |-> 0, ret |-> "none",
   this |-> NoHandle, loads |-> 0, load_ret |-> 0, found |-> <<>>]

\* load_image called on its own: usb_device_open is at its call.
NoOpener ==
  /\ dev = OpenerAt("load")
  /\ bus = <<>>
  /\ handles = {}

NoImage ==
  /\ NoOpener
  /\ image = [base |-> Zero, at |-> <<>>]
  /\ image_size = 0
  /\ layout = [wordsum |-> Zero, sum_at |-> 0, data |-> {}, header_ok |-> FALSE,
                fits |-> FALSE, trailing |-> FALSE, sections |-> <<>>, entry |-> 0]
  /\ validate_ret = NotValidated
  /\ flipped = FALSE
  /\ xfer = NoTransfer
  /\ sent = <<>>

(***************************************************************************)
(* adc_open_async (adc.c 105-167)                                          *)
(***************************************************************************)
DEFAULT_ADC_FRAME_SIZE == 16384
DEFAULT_ADC_NUM_FRAMES == 64
bulk_xfer_timeout == 5000

\* libusb_dev_mem_alloc hands out buffers that are not allocated: the k-th
\* one of a call is buffer k above those in use.
TopBuffer(mem) == IF mem = {} THEN 0 ELSE CHOOSE b \in mem : \A c \in mem : c <= b

\* An allocation loop that returns at the failure without freeing.
AllocFrames_leaky(nf, fail_at, mem) ==
  LET fails == fail_at \in 1..nf
      n == IF fails THEN fail_at - 1 ELSE nf
      fr == [i \in 1..n |-> TopBuffer(mem) + i]
  IN [ok |-> ~fails, frames |-> IF fails THEN <<>> ELSE fr,
      mem |-> mem \cup {fr[i] : i \in 1..n}]

\* The allocation loop (lines 131-141): frames[i] is allocated for i = 1, 2,
\* ...; when allocation fail_at fails, frames[j] is freed for every j < i
\* and the call returns.
AllocFrames(nf, fail_at, mem) ==
  LET fails == fail_at \in 1..nf
      n == IF fails THEN fail_at - 1 ELSE nf
      fr == [i \in 1..n |-> TopBuffer(mem) + i]
      got == mem \cup {fr[i] : i \in 1..n}
  IN IF fails
       THEN [ok |-> FALSE, frames |-> <<>>, mem |-> got \ {fr[j] : j \in 1..(fail_at - 1)}]
       ELSE [ok |-> TRUE, frames |-> fr, mem |-> got]

\* libusb_fill_bulk_transfer(&transfers[i], ..., frames[i], frame_size, ...)
FillTransfers(fr, fs, ep) ==
  [i \in 1..Len(fr) |->
     [endpoint |-> ep, buffer |-> fr[i], length |-> fs, timeout |-> bulk_xfer_timeout]]

\* A check that lets every frame size through.
FrameSizeOk_any(fs, max_xfer_size) == fs >= 0

FrameSizeOk(fs, max_xfer_size) == fs % max_xfer_size = 0

\* heap: the blocks the call got from malloc and did not free.
NoEngine(mem, heap) ==
  [ret |-> "NULL", status |-> "OFF", frame_size |-> 0, num_frames |-> 0,
   frames |-> <<>>, transfers |-> <<>>, active_transfers |-> 0, mem |-> mem, heap |-> heap]

\* a is the call: the device's bulk-in endpoint (address, max_packet_size,
\* max_burst), frame_size, num_frames, and fail_at, the allocation that fails
\* (0: none does).
adc_open_async(a, mem) ==
  LET fs == IF a.frame_size > 0 THEN a.frame_size ELSE DEFAULT_ADC_FRAME_SIZE
      nf == IF a.num_frames > 0 THEN a.num_frames ELSE DEFAULT_ADC_NUM_FRAMES
      max_xfer_size == a.max_packet_size * a.max_burst
      al == AllocFrames(nf, a.fail_at, mem)
  IN IF a.endpoint = 0 THEN NoEngine(mem, {})
     ELSE IF ~FrameSizeOk(fs, max_xfer_size) THEN NoEngine(mem, {})
     ELSE IF ~al.ok THEN NoEngine(al.mem, {"frames"})
     ELSE [ret |-> "ENGINE", status |-> "READY", frame_size |-> fs, num_frames |-> nf,
           frames |-> al.frames, transfers |-> FillTransfers(al.frames, fs, a.endpoint),
           active_transfers |-> 0, mem |-> al.mem, heap |-> {"frames", "this", "transfers"}]

OpenArgs(ep, mps, burst, fs, nf, fail_at) ==
  [endpoint |-> ep, max_packet_size |-> mps, max_burst |-> burst,
   frame_size |-> fs, num_frames |-> nf, fail_at |-> fail_at]

\* The engine fields and the allocated buffers after adc_open_async(a)
\* returned e; open_call keeps the call, what it returned and the heap
\* blocks it left allocated.
Opened(a, e) ==
  /\ status' = e.status
  /\ active_transfers' = e.active_transfers
  /\ num_frames' = e.num_frames
  /\ frame_size' = e.frame_size
  /\ frames' = e.frames
  /\ transfers' = e.transfers
  /\ devmem' = e.mem
  /\ open_call' = [args |-> a, ret |-> e.ret, heap |-> e.heap]

NoCall == [args |-> OpenArgs(0, 0, 0, 0, 0, 0), ret |-> "NONE", heap |-> {}]

(***************************************************************************)
(* The streaming specification starts from the engine adc_open_async       *)
(* returns for num_frames in 1..MaxFrames on a SuperSpeed bulk-in endpoint.*)
(***************************************************************************)
StreamArgs(n) == OpenArgs(129, 1024, 16, 0, n, 0)

Init ==
  \E n \in 1..MaxFrames :
    LET e == adc_open_async(StreamArgs(n), {})
    IN /\ status = e.status
       /\ active_transfers = e.active_transfers
       /\ num_frames = e.num_frames
       /\ frame_size = e.frame_size
       /\ frames = e.frames
       /\ transfers = e.transfers
       /\ devmem = e.mem
       /\ open_call = [args |-> StreamArgs(n), ret |-> e.ret, heap |-> e.heap]
       /\ flight = [t \in 1..n |-> "idle"]
       /\ ctl = CtlInit
       /\ cb = CbIdle
       /\ readied = 0
       /\ drained = -1
       /\ faults = FALSE
  /\ asked = {}
  /\ failed_in_start = FALSE
       /\ NoImage

(***************************************************************************)
(* adc_start (adc.c 195-217)                                               *)
(***************************************************************************)
\* A check that lets a streaming engine be started again.
StartAllowed_streaming(s) == s \in {"READY", "STREAMING"}

StartAllowed(s) == s = "READY"

\* line 197: the status check; not READY returns -1 at once.
adc_start_check ==
  /\ ctl.pc = "idle"
  /\ ctl' = IF StartAllowed(status)
              THEN Call("start", "start_init", status, FALSE)
              ELSE Return(Call("start", "idle", status, FALSE), -1)
  /\ drained' = -1
  /\ faults' = FALSE
  /\ failed_in_start' = FALSE
  /\ UNCHANGED <<status, active_transfers, flight, cb, readied, engine, devmem, open_call, loader,
                 asked>>

\* line 203: atomic_init(&this->active_transfers, 0)
adc_start_init ==
  /\ ctl.pc = "start_init"
  /\ active_transfers' = 0
  /\ ctl' = [ctl EXCEPT !.pc = IF num_frames > 0 THEN "start_submit" ELSE "start_set", !.i = 1]
  /\ UNCHANGED <<status, flight, cb, readied, engine, devmem, open_call, drained, loader, faults, history>>

\* A failure that takes back the descriptors submitted before it.
start_submit_failed_rollback(ret) ==
  /\ status' = "FAILED"
  /\ ctl' = Return([ctl EXCEPT !.ret = ret], -1)
  /\ flight' = [t \in DOMAIN flight |-> IF flight[t] = "submitted" THEN "cancelling" ELSE flight[t]]

\* lines 206-210: a failed submission sets FAILED and returns -1; the
\* descriptors submitted before it stay as they are.  A refused submission
\* changes nothing in libusb, so the step is taken where the status is
\* written.
start_submit_failed(ret) ==
  /\ status' = "FAILED"
  /\ ctl' = Return([ctl EXCEPT !.ret = ret], -1)
  /\ UNCHANGED flight

\* lines 205-210: libusb_submit_transfer(&this->transfers[i])
adc_start_submit ==
  /\ ctl.pc = "start_submit"
  /\ \E ret \in SubmitResults(ctl.i) :
       IF IsError(ret)
         THEN start_submit_failed(ret)
         ELSE /\ flight' = [flight EXCEPT ![ctl.i] = "submitted"]
              /\ ctl' = [ctl EXCEPT !.pc = "start_add", !.ret = ret]
              /\ UNCHANGED status
  /\ UNCHANGED <<active_transfers, cb, readied, engine, devmem, open_call, drained, loader, faults, history>>

\* line 211: atomic_fetch_add(&this->active_transfers, 1), then the loop test.
adc_start_add ==
  /\ ctl.pc = "start_add"
  /\ active_transfers' = active_transfers + 1
  /\ ctl' = [ctl EXCEPT !.pc = IF ctl.i < num_frames THEN "start_submit" ELSE "start_set",
                         !.i = ctl.i + 1]
  /\ UNCHANGED <<status, flight, cb, readied, engine, devmem, open_call, drained, loader, faults, history>>

\* lines 214-216: this->status = ADC_STATUS_STREAMING; return 0.
adc_start_set ==
  /\ ctl.pc = "start_set"
  /\ status' = "STREAMING"
  /\ ctl' = Return(ctl, 0)
  /\ UNCHANGED <<active_transfers, flight, cb, readied, engine, devmem, open_call, drained, loader, faults, history>>

(***************************************************************************)
(* adc_stop (adc.c 220-244)                                                *)
(***************************************************************************)
\* No transfer is active: none in flight, none being handled, counter 0.
Quiet == /\ \A t \in Descriptors : ~InFlight(t)
         /\ cb.pc = "idle"
         /\ active_transfers = 0

\* Every cancellation error taken as fatal.
CancelFatal_any(ret) == IsError(ret)

\* lines 226-231: a cancellation error other than not-found is fatal.
CancelFatal(ret) == IsError(ret) /\ ret # "NOT_FOUND"

\* line 222: this->status = ADC_STATUS_CANCELLED, before any cancellation.
adc_stop_set ==
  /\ ctl.pc = "idle"
  /\ status' = "CANCELLED"
  /\ readied' = 0
  /\ ctl' = [Call("stop", IF num_frames > 0 THEN "stop_cancel" ELSE "stop_flush", status, Quiet)
               EXCEPT !.i = 1]
  /\ drained' = IF ctl.op = "start" /\ ctl.rv = 0 THEN 0 ELSE -1
  /\ UNCHANGED <<active_transfers, flight, cb, engine, devmem, open_call, loader, faults, history>>

\* The next pass of the cancellation loop, or the flush after the last.
StopNext(c) ==
  [c EXCEPT !.pc = IF c.i < num_frames THEN "stop_cancel" ELSE "stop_flush", !.i = c.i + 1]

\* lines 225-229: libusb_cancel_transfer(&this->transfers[i])
adc_stop_cancel ==
  /\ ctl.pc = "stop_cancel"
  /\ \E ret \in CancelResults(ctl.i) :
       /\ flight' = IF ret = "SUCCESS" THEN [flight EXCEPT ![ctl.i] = "cancelling"] ELSE flight
       /\ ctl' = IF CancelFatal(ret)
                   THEN [ctl EXCEPT !.pc = "stop_failed", !.ret = ret]
                   ELSE StopNext([ctl EXCEPT !.ret = ret])
  /\ UNCHANGED <<status, active_transfers, cb, readied, engine, devmem, open_call, drained, loader, faults, history>>

\* lines 230-231: this->status = ADC_STATUS_FAILED; the loop goes on.
adc_stop_failed ==
  /\ ctl.pc = "stop_failed"
  /\ status' = "FAILED"
  /\ ctl' = StopNext(ctl)
  /\ UNCHANGED <<active_transfers, flight, cb, readied, engine, devmem, open_call, drained, loader, faults, history>>

\* lines 236-243: libusb_handle_events_timeout_completed with a zero
\* timeout, and the status write when it reports an error: the call changes
\* no state of its own, so the step is taken where the write is.  The
\* callbacks the call runs are the steps of the event-processing context
\* below.
adc_stop_flush ==
  /\ ctl.pc = "stop_flush"
  /\ \E ret \in {"SUCCESS", "OTHER"} :
       /\ status' = IF IsError(ret) THEN "FAILED" ELSE status
       /\ ctl' = Return([ctl EXCEPT !.ret = ret], 0)
  /\ UNCHANGED <<active_transfers, flight, cb, readied, engine, devmem, open_call, drained, loader, faults, history>>

(***************************************************************************)
(* adc_read_async_callback (adc.c 248-291), run by libusb for a descriptor *)
(* that completed.  libusb takes the descriptor out of flight before it    *)
(* calls the callback, and runs one callback at a time.                    *)
(***************************************************************************)
CaseOf(st) ==
  CASE st = "COMPLETED" -> "completed"
    [] st = "CANCELLED" -> "cancelled"
    [] OTHER -> "failed"

\* line 252: the callback is entered with transfer->status.
callback_enter ==
  /\ cb.pc = "idle"
  /\ \E t \in Descriptors :
       /\ InFlight(t)
       /\ \E st \in CompletionStatuses(t) :
            /\ cb' = CbAt(CaseOf(st), t, st, status)
            /\ flight' = [flight EXCEPT ![t] = "idle"]
            /\ drained' = IF drained >= 0 /\ st = "CANCELLED" THEN drained + 1 ELSE -1
            /\ faults' = (faults \/ st = "ERROR")
  /\ asked' = {}
  /\ UNCHANGED <<status, active_transfers, ctl, readied, engine, devmem, open_call, loader,
                 failed_in_start>>

\* Delivery whatever the engine status.
Deliverable_always(s) == TRUE

\* lines 255-257: a completed transfer is delivered to this->callback only
\* while the engine is STREAMING; otherwise the failure path is taken.
Deliverable(s) == s = "STREAMING"

callback_completed ==
  /\ cb.pc = "completed"
  /\ cb' = IF Deliverable(status)
             THEN [cb EXCEPT !.pc = "resubmit", !.delivered = TRUE]
             ELSE [cb EXCEPT !.pc = "failed"]
  /\ UNCHANGED <<status, active_transfers, flight, ctl, readied, engine, devmem, open_call, drained, loader, faults, history>>

\* Every result of the resubmission taken as success.
Resubmitted_any(ret) == TRUE

\* line 259: ret == 0
Resubmitted(ret) == ret = "SUCCESS"

\* lines 258-262: libusb_submit_transfer(transfer); 0 returns.
callback_resubmit ==
  /\ cb.pc = "resubmit"
  /\ \E ret \in SubmitResults(cb.t) :
       IF Resubmitted(ret)
         THEN /\ flight' = IF ret = "SUCCESS" THEN [flight EXCEPT ![cb.t] = "submitted"] ELSE flight
              /\ cb' = CbIdle
              /\ faults' = (faults \/ ret # "SUCCESS")
         ELSE /\ cb' = [cb EXCEPT !.pc = "failed"]
              /\ faults' = TRUE
              /\ UNCHANGED flight
  /\ UNCHANGED <<status, active_transfers, ctl, readied, engine, devmem, open_call, drained, loader,
                 history>>

\* The old value compared with 0 instead of 1.
WasLast_zero(old) == old = 0

\* line 266: atomic_fetch_sub(&this->active_transfers, 1) == 1
WasLast(old) == old = 1

callback_cancelled ==
  /\ cb.pc = "cancelled"
  /\ active_transfers' = active_transfers - 1
  /\ cb' = IF WasLast(active_transfers) THEN [cb EXCEPT !.pc = "check_status"] ELSE CbIdle
  /\ UNCHANGED <<status, flight, ctl, readied, engine, devmem, open_call, drained, loader, faults, history>>

\* lines 266-267: ... && this->status == ADC_STATUS_CANCELLED
Drained(s) == s = "CANCELLED"

callback_check_status ==
  /\ cb.pc = "check_status"
  /\ cb' = IF Drained(status) THEN [cb EXCEPT !.pc = "set_ready"] ELSE CbIdle
  /\ UNCHANGED <<status, active_transfers, flight, ctl, readied, engine, devmem, open_call, drained, loader, faults, history>>

\* line 268: this->status = ADC_STATUS_READY
callback_set_ready ==
  /\ cb.pc = "set_ready"
  /\ status' = "READY"
  /\ readied' = IF status = "CANCELLED" /\ readied < 2 THEN readied + 1 ELSE readied
  /\ cb' = CbIdle
  /\ UNCHANGED <<active_transfers, flight, ctl, engine, devmem, open_call, drained, loader, faults, history>>

\* adc_start has made its first submission (line 205) and not returned.
Submitting ==
  /\ ctl.op = "start"
  /\ ctl.pc \in {"start_add", "start_set"} \/ (ctl.pc = "start_submit" /\ ctl.i > 1)

\* line 277: this->status = ADC_STATUS_FAILED
callback_failed ==
  /\ cb.pc = "failed"
  /\ status' = "FAILED"
  /\ cb' = [cb EXCEPT !.pc = "fail_sub"]
  /\ failed_in_start' = (failed_in_start \/ Submitting)
  /\ UNCHANGED <<active_transfers, flight, ctl, readied, engine, devmem, open_call, drained, loader,
                 faults, asked>>

\* line 278: atomic_fetch_sub(&this->active_transfers, 1)
callback_fail_sub ==
  /\ cb.pc = "fail_sub"
  /\ active_transfers' = active_transfers - 1
  /\ cb' = IF num_frames > 0 THEN [cb EXCEPT !.pc = "fail_cancel", !.i = 1] ELSE CbIdle
  /\ UNCHANGED <<status, flight, ctl, readied, engine, devmem, open_call, drained, loader, faults, history>>

\* line 282: the descriptor each pass of the loop asks libusb to cancel:
\* the completed one itself (transfer), whatever i is.
CancelTarget(t, i) == t

\* lines 281-289: num_frames cancellation requests; their results are
\* logged at most.
callback_fail_cancel ==
  /\ cb.pc = "fail_cancel"
  /\ \E ret \in CancelResults(CancelTarget(cb.t, cb.i)) :
       flight' = IF ret = "SUCCESS"
                   THEN [flight EXCEPT ![CancelTarget(cb.t, cb.i)] = "cancelling"]
                   ELSE flight
  /\ cb' = IF cb.i < num_frames THEN [cb EXCEPT !.i = cb.i + 1] ELSE CbIdle
  /\ asked' = asked \cup {CancelTarget(cb.t, cb.i)}
  /\ UNCHANGED <<status, active_transfers, ctl, readied, engine, devmem, open_call, drained, loader,
                 faults, failed_in_start>>

Next ==
  \/ adc_start_check \/ adc_start_init \/ adc_start_submit \/ adc_start_add \/ adc_start_set
  \/ adc_stop_set \/ adc_stop_cancel \/ adc_stop_failed \/ adc_stop_flush
  \/ callback_enter \/ callback_completed \/ callback_resubmit
  \/ callback_cancelled \/ callback_check_status \/ callback_set_ready
  \/ callback_failed \/ callback_fail_sub \/ callback_fail_cancel

Spec == Init /\ [][Next]_vars

(***************************************************************************)
(* Opening and closing an engine: adc_open_async (105-167) called on a     *)
(* device without an engine, for every combination of a few endpoint       *)
(* characteristics, frame sizes, frame counts and failing allocations, and *)
(* adc_close (170-184) on the engine it returned.                          *)
(***************************************************************************)
EndpointAddresses == {0, 129}
MaxPacketSizes == {512, 1024}
MaxBursts == {1, 8, 16}
FrameSizes == {0, 4000, 4096, 16384}

EffectiveFrames(nf) == IF nf > 0 THEN nf ELSE DEFAULT_ADC_NUM_FRAMES
EffectiveFrameSize(fs) == IF fs > 0 THEN fs ELSE DEFAULT_ADC_FRAME_SIZE

InitOpen ==
  /\ status = "OFF"
  /\ active_transfers = 0
  /\ num_frames = 0
  /\ frame_size = 0
  /\ frames = <<>>
  /\ transfers = <<>>
  /\ devmem = {}
  /\ open_call = NoCall
  /\ flight = <<>>
  /\ ctl = CtlInit
  /\ cb = CbIdle
  /\ readied = 0
  /\ drained = -1
  /\ faults = FALSE
  /\ asked = {}
  /\ failed_in_start = FALSE
  /\ NoImage

\* A caller that was refused an engine does not ask again: what the call does
\* depends on its arguments and on the buffers in use only.
open_async ==
  /\ status = "OFF"
  /\ open_call.ret # "NULL"
  /\ \E ep \in EndpointAddresses, mps \in MaxPacketSizes, burst \in MaxBursts,
        fs \in FrameSizes, nf \in 0..MaxFrames :
       \E fail_at \in 0..EffectiveFrames(nf) :
         LET a == OpenArgs(ep, mps, burst, fs, nf, fail_at)
         IN Opened(a, adc_open_async(a, devmem))
  /\ UNCHANGED <<flight, ctl, cb, readied, drained, loader, faults, history>>

\* adc_close: the descriptors, every buffer and the engine are freed.
adc_close ==
  /\ status # "OFF"
  /\ devmem' = devmem \ {frames[i] : i \in 1..num_frames}
  /\ status' = "OFF"
  /\ active_transfers' = 0
  /\ num_frames' = 0
  /\ frame_size' = 0
  /\ frames' = <<>>
  /\ transfers' = <<>>
  /\ UNCHANGED <<open_call, flight, ctl, cb, readied, drained, loader, faults, history>>

NextOpen == open_async \/ adc_close

SpecOpen == InitOpen /\ [][NextOpen]_vars

(***************************************************************************)
(* validate_image (usb_device.c 414-465), called by load_image (357-411)   *)
(* on the bytes of the image file.                                         *)
(***************************************************************************)
MinImageSize == 10240
Words == (0..(Half - 1)) \X (0..(Half - 1))

\* The words at[k], k in S, added up.
SumWords(img, S) ==
  LET sum[p \in (SUBSET DOMAIN img.at) \X Words] ==
        IF p[1] = {} THEN p[2]
        ELSE LET k == CHOOSE j \in p[1] : TRUE
             IN sum[<<p[1] \ {k}, Add32(p[2], img.at[k])>>]
  IN sum[<<S, Zero>>]

\* while (loadSz--) checksum += *current++ (lines 449-451), over the loadSz
\* words from word first on: addition mod 2^32 commutes, so the words given
\* one by one are added and the others are base, that many times.
SectionSum(img, first, loadSz) ==
  LET given == {k \in DOMAIN img.at : first <= k /\ k < first + loadSz}
  IN Add32(SumWords(img, given), Mul32(img.base, loadSz - Cardinality(given)))

\* current + loadSz >= end - 2 (line 445), in bytes from the start of the
\* image; current is the byte offset of the first data word.  A loadSz of
\* 2^16 words or more is beyond every buffer considered here.
TooBig(loadSz, current, size) == loadSz[1] > 0 \/ current + 4 * loadSz[2] >= size - 8

\* A comparison of the high halves only.
ChecksumMatches_high(checksum, expected_checksum) == checksum[1] = expected_checksum[1]

ChecksumMatches(checksum, expected_checksum) == checksum = expected_checksum

validate_image(img, size) ==
  IF size < MinImageSize THEN Verdict(-1, "image file is too small", FALSE)
  ELSE IF ~(ByteAt(img, 0) = 67 /\ ByteAt(img, 1) = 89)
    THEN ReadTo(Verdict(-1, "image header does not start with 'CY'", FALSE),
                IF ByteAt(img, 0) = 67 THEN 2 ELSE 1)
  ELSE IF ByteAt(img, 2) # 28
    THEN ReadTo(Verdict(-1, "I2C config is not set to 0x1C", FALSE), 3)
  ELSE IF ByteAt(img, 3) # 176
    THEN ReadTo(Verdict(-1, "image type is not binary", FALSE), 4)
  ELSE
    LET walk[p \in Nat \X Words] ==
          LET current == p[1]
              checksum == p[2]
              loadSz == WordAt(img, current \div 4)
          IN IF loadSz = Zero
               THEN LET expected_checksum == WordAt(img, (current \div 4) + 2)
                        warning == current + 12 # size
                    IN IF ChecksumMatches(checksum, expected_checksum)
                         THEN ReadTo(Verdict(0, "", warning), current + 12)
                         ELSE ReadTo(Verdict(-1, "checksum does not match", warning),
                                     current + 12)
               ELSE IF TooBig(loadSz, current + 8, size)
                 THEN ReadTo(Verdict(-1, "loadSz is too big", FALSE), current + 8)
                 ELSE walk[<<current + 8 + 4 * loadSz[2],
                            Add32(checksum, SectionSum(img, (current \div 4) + 2, loadSz[2]))>>]
    IN walk[<<4, Zero>>]

(***************************************************************************)
(* The image files: a header, up to MaxSections sections of up to MaxLoad  *)
(* data words each, possibly one more section that fills the file up to    *)
(* its last three words, the zero-length terminator, the entry address and *)
(* the checksum word; what is left of the file is trailing bytes.  A file  *)
(* whose last section is "over" announces one data word more than the file *)
(* has room for; a file whose last section is "cut" was written whole and  *)
(* lost its end: its last section, terminator and entry address are there, *)
(* and its checksum word starts in the file's last whole word or after it. *)
(***************************************************************************)
MaxSections == 2
MaxLoad == 2

GoodHeader == <<45084, 22851>>       \* 'C' 'Y' 0x1c 0xb0
Headers == {GoodHeader, <<45084, 22850>>, <<45085, 22851>>, <<44828, 22851>>}
DataWords == {<<0, 1>>, <<65535, 65535>>}
FlipWords == DataWords \cup {Zero}
FillWord == <<65535, 65534>>
ImageSizes == {10236, 10240, 10242}
EntryAddress == <<16384, 256>>
SectionAddress(j) == <<16384 + j, 4096 * j>>
Fills == {"none", "exact", "over", "block", "cut"}

\* A last section of "block" is two full control transfers long.
max_write_size == 2048
BlockWords == 2 * (max_write_size \div 4)

\* The same addresses as the file's writer knows them, as numbers.
EntryAddressValue == 16384 * Half + 256
SectionAddressValue(j) == (16384 + j) * Half + 4096 * j

Loads == UNION {[1..n -> DataWords] : n \in 1..MaxLoad}
SectionLists == UNION {[1..m -> Loads] : m \in 0..MaxSections}

\* The words of sections j, j+1, ... of the list, one after the other.
RECURSIVE SectionWords(_, _)
SectionWords(secs, j) ==
  IF j > Len(secs) THEN <<>>
  ELSE <<<<0, Len(secs[j])>>, SectionAddress(j)>> \o secs[j] \o SectionWords(secs, j + 1)

\* The word indexes of their data, when section j starts at word k.
RECURSIVE SectionData(_, _, _)
SectionData(secs, j, k) ==
  IF j > Len(secs) THEN {}
  ELSE ((k + 2)..(k + 1 + Len(secs[j]))) \cup SectionData(secs, j + 1, k + 2 + Len(secs[j]))

\* The sections as the file's writer lays them out, when section j starts
\* at word k: the address, the first data word and the number of data words.
RECURSIVE SectionTable(_, _, _)
SectionTable(secs, j, k) ==
  IF j > Len(secs) THEN <<>>
  ELSE <<[address |-> SectionAddressValue(j), first |-> k + 2, len |-> Len(secs[j])]>>
         \o SectionTable(secs, j + 1, k + 2 + Len(secs[j]))

\* The sum the file's writer computes over the data words it writes.
WriterSum(secs, filler) ==
  LET add[p \in Nat \X Nat \X Words] ==
        IF p[1] > Len(secs) THEN p[3]
        ELSE IF p[2] > Len(secs[p[1]]) THEN add[<<p[1] + 1, 1, p[3]>>]
        ELSE add[<<p[1], p[2] + 1, Add32(p[3], secs[p[1]][p[2]])>>]
  IN Add32(add[<<1, 1, Zero>>], Mul32(FillWord, filler))

BuildImage(header, secs, fill, right_sum, size) ==
  LET head == <<header>> \o SectionWords(secs, 1)
      next == Len(head)                                \* first word after the sections
      nwords == size \div 4
      last == fill # "none"
      filler == CASE fill = "none" -> 0                   \* data words of the last section
                  [] fill = "block" -> BlockWords
                  [] fill = "cut" -> nwords - next - 4
                  [] OTHER -> nwords - next - 5
      tail == IF last THEN next + 2 + filler ELSE next    \* the terminator's word
      over == IF fill = "over" THEN 1 ELSE 0
      wsum == WriterSum(secs, filler)
      stored == IF right_sum THEN wsum ELSE Add32(wsum, <<0, 1>>)
      at == [k \in 0..(next - 1) |-> head[k + 1]]
            @@ (IF last THEN (next :> <<0, filler + over>>)
                               @@ ((next + 1) :> SectionAddress(Len(secs) + 1))
                        ELSE <<>>)
            @@ (tail :> Zero) @@ ((tail + 1) :> EntryAddress) @@ ((tail + 2) :> stored)
  IN [image |-> [base |-> FillWord, at |-> at],
      layout |-> [wordsum |-> wsum, sum_at |-> tail + 2,
                  data |-> SectionData(secs, 1, 1)
                             \cup (IF last THEN {next + 2, next + 1 + filler} ELSE {}),
                  header_ok |-> header = GoodHeader,
                  fits |-> fill \notin {"over", "cut"},
                  trailing |-> 4 * (tail + 3) # size,
                  sections |-> SectionTable(secs, 1, 1)
                                 \o (IF last THEN <<[address |-> SectionAddressValue(Len(secs) + 1),
                                                     first |-> next + 2, len |-> filler]>>
                                             ELSE <<>>),
                  entry |-> EntryAddressValue]]

InitImage ==
  /\ status = "OFF"
  /\ active_transfers = 0
  /\ num_frames = 0
  /\ frame_size = 0
  /\ frames = <<>>
  /\ transfers = <<>>
  /\ devmem = {}
  /\ open_call = NoCall
  /\ flight = <<>>
  /\ ctl = CtlInit
  /\ cb = CbIdle
  /\ readied = 0
  /\ drained = -1
  /\ \E header \in Headers, secs \in SectionLists, fill \in Fills, right_sum \in BOOLEAN,
        size \in ImageSizes :
       LET b == BuildImage(header, secs, fill, right_sum, size)
       IN image = b.image /\ layout = b.layout /\ image_size = size
  /\ validate_ret = NotValidated
  /\ flipped = FALSE
  /\ xfer = NoTransfer
  /\ sent = <<>>
  /\ NoOpener
  /\ faults = FALSE
  /\ asked = {}
  /\ failed_in_start = FALSE

\* What the memory after the buffer can hold where validate_image reads it.
Garbage(img, size) == {Zero, <<65535, 65535>>, WordAt(img, size \div 4)}

\* The buffer of size bytes (line 375) with the memory that follows it: the
\* word the buffer ends in, or ends before, has the bytes after the end
\* from g.
Memory(img, size, g) ==
  LET k == size \div 4
      w == IF size % 4 = 2 THEN <<g[1], WordAt(img, k)[2]>> ELSE g
  IN [img EXCEPT !.at = (k :> w) @@ @]

\* load_image line 390: the image read from the file is validated.  A read
\* past the end of the buffer gets whatever is there.
validate ==
  /\ dev.pc = "load"
  /\ validate_ret = NotValidated
  /\ \E g \in Garbage(image, image_size) :
       validate_ret' = validate_image(Memory(image, image_size, g), image_size)
  /\ UNCHANGED <<status, active_transfers, engine, flight, ctl, cb, readied, devmem,
                 open_call, drained, image, image_size, layout, flipped, xfer, sent, opener, faults, history>>

\* One data word of a file that was accepted is changed, and the file is
\* loaded again.
flip_word ==
  /\ validate_ret.ret = 0
  /\ ~flipped
  /\ xfer.pc = "none"
  /\ \E k \in layout.data, w \in FlipWords :
       /\ w # WordAt(image, k)
       /\ image' = [image EXCEPT !.at = (k :> w) @@ @]
       /\ layout' = [layout EXCEPT !.wordsum = Add32(Sub32(@, WordAt(image, k)), w)]
  /\ flipped' = TRUE
  /\ validate_ret' = NotValidated
  /\ UNCHANGED <<status, active_transfers, engine, flight, ctl, cb, readied, devmem,
                 open_call, drained, image_size, xfer, sent, opener, faults, history>>

(***************************************************************************)
(* transfer_image (usb_device.c 468-519), called by load_image (line 395)  *)
(* on an image validate_image accepted: each libusb_control_transfer is    *)
(* one step.                                                               *)
(***************************************************************************)
\* address & 0xffff and address >> 16 (lines 490, 512)
Low16(address) == address[2]
High16(address) == address[1]

\* A section written in one transfer, whatever its size.
ChunkLength_whole(nleft) == nleft

\* line 488: wLength = nleft > max_write_size ? max_write_size : nleft
ChunkLength(nleft) == IF nleft > max_write_size THEN max_write_size ELSE nleft

\* What libusb_control_transfer can return for wLength bytes: all of them
\* written, fewer, or an error code.
ControlResults(wLength) == {wLength, -1} \cup (IF wLength > 0 THEN {wLength - 1, 0} ELSE {})

\* A control transfer as it went out: data is the payload's place in the
\* image (in bytes), ret what libusb returned.
ControlTransfer(address, data, wLength, ret) ==
  [wValue |-> Low16(address), wIndex |-> High16(address), data |-> data,
   wLength |-> wLength, ret |-> ret]

\* A load_image that goes on to transfer_image whatever validate_image said.
Accepted_any(v) == v.ret <= 0

\* line 390: validate_image(image, image_size) < 0 leaves load_image.
Accepted(v) == v.ret = 0

\* line 395 and 477: called with current past the header word.
transfer_begin ==
  /\ Accepted(validate_ret)
  /\ xfer.pc = "none"
  /\ xfer' = [NoTransfer EXCEPT !.pc = "section", !.current = 1]
  /\ UNCHANGED <<status, active_transfers, engine, flight, ctl, cb, readied, devmem,
                 open_call, drained, image, image_size, layout, validate_ret, flipped,
                 sent, opener, faults, history>>

\* lines 480-487: the next section's loadSz and address, or the terminator.
\* An accepted image has loadSz below 2^16, so loadSz * 4 is 4 times its
\* low half.
transfer_section ==
  /\ xfer.pc = "section"
  /\ LET loadSz == WordAt(image, xfer.current)
     IN xfer' = IF loadSz = Zero
                  THEN [xfer EXCEPT !.pc = "entry", !.current = xfer.current + 1]
                  ELSE [xfer EXCEPT !.pc = "chunk",
                                    !.loadSz = loadSz[2],
                                    !.address = WordAt(image, xfer.current + 1),
                                    !.current = xfer.current + 2,
                                    !.data = 4 * (xfer.current + 2),
                                    !.nleft = 4 * loadSz[2]]
  /\ UNCHANGED <<status, active_transfers, engine, flight, ctl, cb, readied, devmem,
                 open_call, drained, image, image_size, layout, validate_ret, flipped,
                 sent, opener, faults, history>>

\* A loop that stops for an error code only.
AfterChunk_errors_only(x, wLength, ret) ==
  IF ret < 0 THEN [x EXCEPT !.pc = "done", !.rv = -1]
  ELSE IF x.nleft - wLength > 0
    THEN [x EXCEPT !.data = x.data + wLength, !.nleft = x.nleft - wLength]
    ELSE [x EXCEPT !.pc = "section", !.data = x.data + wLength, !.nleft = 0,
                   !.current = x.current + x.loadSz]

\* What follows a chunk that libusb answered with ret (lines 492-503).
AfterChunk(x, wLength, ret) ==
  IF ret < 0 \/ ret # wLength THEN [x EXCEPT !.pc = "done", !.rv = -1]
  ELSE IF x.nleft - wLength > 0
    THEN [x EXCEPT !.data = x.data + wLength, !.nleft = x.nleft - wLength]
    ELSE [x EXCEPT !.pc = "section", !.data = x.data + wLength, !.nleft = 0,
                   !.current = x.current + x.loadSz]

\* lines 488-502: one pass of the chunk loop.
transfer_chunk ==
  /\ xfer.pc = "chunk"
  /\ LET wLength == ChunkLength(xfer.nleft)
     IN \E ret \in ControlResults(wLength) :
          /\ sent' = Append(sent, ControlTransfer(xfer.address, xfer.data, wLength, ret))
          /\ xfer' = AfterChunk(xfer, wLength, ret)
  /\ UNCHANGED <<status, active_transfers, engine, flight, ctl, cb, readied, devmem,
                 open_call, drained, image, image_size, layout, validate_ret, flipped,
                 opener, faults, history>>

\* A failed last transfer reported to the caller.
EntryResult_strict(ret) == IF ret < 0 THEN -1 ELSE 0

\* What transfer_image returns after the last transfer returned ret.
EntryResult(ret) == 0

\* lines 506-518: the zero-length transfer at the entry address; its
\* failure is a warning.
transfer_entry ==
  /\ xfer.pc = "entry"
  /\ \E ret \in ControlResults(0) :
       /\ sent' = Append(sent, ControlTransfer(WordAt(image, xfer.current), -1, 0, ret))
       /\ xfer' = [xfer EXCEPT !.pc = "done", !.rv = EntryResult(ret),
                                !.current = xfer.current + 2]
  /\ UNCHANGED <<status, active_transfers, engine, flight, ctl, cb, readied, devmem,
                 open_call, drained, image, image_size, layout, validate_ret, flipped,
                 opener, faults, history>>

NextImage ==
  \/ validate \/ flip_word
  \/ transfer_begin \/ transfer_section \/ transfer_chunk \/ transfer_entry

LoadSteps == validate \/ transfer_begin \/ transfer_section \/ transfer_chunk \/ transfer_entry

SpecImage == InitImage /\ [][NextImage]_vars

(***************************************************************************)
(* usb_device_open (usb_device.c 222-270) and find_usb_device (283-354),   *)
(* with load_image (357-411) run on the image file as above.               *)
(***************************************************************************)
MaxDevices == 2

\* usb_device_ids (lines 53-56): the FX3 boot loader and the streamer.
usb_device_ids ==
  <<[vid |-> 1204, pid |-> 243, needs_firmware |-> 1],
    [vid |-> 1204, pid |-> 241, needs_firmware |-> 0]>>

\* The devices a bus can hold: the two above and one that is neither.
DeviceKinds == {[vid |-> 1204, pid |-> 243], [vid |-> 1204, pid |-> 241], [vid |-> 1133, pid |-> 241]}
BusLists == UNION {[1..n -> DeviceKinds] : n \in 0..MaxDevices}

Matches(d, id) == d.vid = id.vid /\ d.pid = id.pid
Known(d) == \E k \in 1..Len(usb_device_ids) : Matches(d, usb_device_ids[k])

\* What goes wrong in a find_usb_device call: nothing, or
\* libusb_get_device_list, libusb_open, libusb_kernel_driver_active (an
\* error, or a driver that is active) or libusb_claim_interface.
FindFaults == {"none", "list", "open", "driver", "busy", "claim"}

\* lines 296-312: the index-th listed device that matches an entry of
\* usb_device_ids (0: there is none), and that entry's needs_firmware.
Selected(index, devices) ==
  LET count(p) == Cardinality({q \in 1..(p - 1) : Known(devices[q])})
      hits == {p \in 1..Len(devices) : Known(devices[p]) /\ count(p) = index}
  IN IF hits = {} THEN 0 ELSE CHOOSE p \in hits : TRUE

NeedsFirmware(d) ==
  LET k == CHOOSE k \in 1..Len(usb_device_ids) : Matches(d, usb_device_ids[k])
  IN usb_device_ids[k].needs_firmware

\* find_usb_device: the handle it returns (NoHandle for 0) and what it
\* leaves in *needs_firmware.  A handle it opened and could not set up is
\* closed again before it returns (lines 346-348).
find_usb_device(index, devices, fault) ==
  LET p == Selected(index, devices)
  IN IF fault = "list" \/ p = 0 THEN [handle |-> NoHandle, needs_firmware |-> 0, found |-> NoDevice]
     ELSE [handle |-> IF fault = "none"
                        THEN [pos |-> p, vid |-> devices[p].vid, pid |-> devices[p].pid]
                        ELSE NoHandle,
           needs_firmware |-> NeedsFirmware(devices[p]),
           found |-> IF fault = "none" THEN devices[p] ELSE NoDevice]

\* lines 258-262: the usb_device_t returned holds dev_handle.
Returned(d) == [d EXCEPT !.pc = "done", !.ret = "DEVICE", !.this = d.handle]

\* FAIL1/FAIL0 (lines 266-269): 0 is returned.
Failed(d) == [d EXCEPT !.pc = "done", !.ret = "NULL"]

\* lines 226-238: libusb_init, the first find_usb_device, and the test of
\* needs_firmware.
open_find ==
  /\ dev.pc = "idle"
  /\ \E index \in 0..MaxDevices, init_ok \in BOOLEAN, fault \in FindFaults :
       LET f == find_usb_device(index, bus, fault)
           d == [dev EXCEPT !.index = index, !.handle = f.handle,
                            !.needs_firmware = f.needs_firmware, !.found = <<f.found>>]
       IN IF ~init_ok THEN dev' = Failed([dev EXCEPT !.index = index]) /\ UNCHANGED handles
          ELSE IF f.handle = NoHandle THEN dev' = Failed(d) /\ UNCHANGED handles
          ELSE /\ handles' = handles \cup {f.handle}
               /\ dev' = IF f.needs_firmware # 0
                           THEN [d EXCEPT !.pc = "load", !.loads = d.loads + 1]
                           ELSE Returned(d)
  /\ UNCHANGED <<status, active_transfers, engine, flight, ctl, cb, readied, devmem,
                 open_call, drained, image, image_size, layout, validate_ret, flipped,
                 xfer, sent, bus, faults, history>>

\* load_image lines 360-388: the file cannot be opened or read; load_image
\* returns -1 and usb_device_open closes the handle (FAIL2).
load_file_failed ==
  /\ dev.pc = "load"
  /\ validate_ret = NotValidated
  /\ handles' = handles \ {dev.handle}
  /\ dev' = Failed([dev EXCEPT !.load_ret = -1])
  /\ UNCHANGED <<status, active_transfers, engine, flight, ctl, cb, readied, devmem,
                 open_call, drained, image, image_size, layout, validate_ret, flipped,
                 xfer, sent, bus, faults, history>>

\* load_image lines 390-400: -1 unless validate_image and transfer_image
\* both returned 0.
LoadReturned == validate_ret.ret = -1 \/ xfer.pc = "done"
load_image_ret == IF validate_ret.ret < 0 \/ xfer.rv < 0 THEN -1 ELSE 0

\* lines 239-246: load_image has returned.  A failure closes the handle
\* (FAIL2); otherwise the handle is closed for the rescan, and the devices
\* are listed anew: the one that was loaded may have left the bus, come
\* back as either device, and others may have come or gone.
open_loaded ==
  /\ dev.pc = "load"
  /\ LoadReturned
  /\ handles' = handles \ {dev.handle}
  /\ IF load_image_ret < 0
       THEN dev' = Failed([dev EXCEPT !.load_ret = load_image_ret]) /\ UNCHANGED bus
       ELSE /\ dev' = [dev EXCEPT !.pc = "rescan", !.load_ret = load_image_ret]
            /\ bus' \in BusLists
  /\ UNCHANGED <<status, active_transfers, engine, flight, ctl, cb, readied, devmem,
                 open_call, drained, image, image_size, layout, validate_ret, flipped,
                 xfer, sent, faults, history>>

\* A usb_device_open that returned whatever device the rescan found.
StillBootLoader_never(needs_firmware) == FALSE

\* What usb_device_open does with a device that still needs firmware after
\* the rescan (lines 252-255).
StillBootLoader(needs_firmware) == needs_firmware # 0

\* lines 247-262: the second find_usb_device.
open_rescan ==
  /\ dev.pc = "rescan"
  /\ \E fault \in FindFaults :
       LET f == find_usb_device(dev.index, bus, fault)
           d == [dev EXCEPT !.handle = f.handle, !.needs_firmware = f.needs_firmware,
                            !.found = Append(dev.found, f.found)]
       IN IF f.handle = NoHandle THEN dev' = Failed(d) /\ UNCHANGED handles
          ELSE IF StillBootLoader(f.needs_firmware) THEN dev' = Failed(d) /\ UNCHANGED handles
          ELSE dev' = Returned(d) /\ handles' = handles \cup {f.handle}
  /\ UNCHANGED <<status, active_transfers, engine, flight, ctl, cb, readied, devmem,
                 open_call, drained, image, image_size, layout, validate_ret, flipped,
                 xfer, sent, bus, faults, history>>

\* The image files usb_device_open is given here.
InitDevice ==
  /\ status = "OFF"
  /\ active_transfers = 0
  /\ num_frames = 0
  /\ frame_size = 0
  /\ frames = <<>>
  /\ transfers = <<>>
  /\ devmem = {}
  /\ open_call = NoCall
  /\ flight = <<>>
  /\ ctl = CtlInit
  /\ cb = CbIdle
  /\ readied = 0
  /\ drained = -1
  /\ faults = FALSE
  /\ asked = {}
  /\ failed_in_start = FALSE
  /\ \E header \in {GoodHeader, <<45084, 22850>>}, fill \in {"none", "block"},
        right_sum \in BOOLEAN :
       LET b == BuildImage(header, <<>>, fill, right_sum, MinImageSize)
       IN image = b.image /\ layout = b.layout /\ image_size = MinImageSize
  /\ validate_ret = NotValidated
  /\ flipped = FALSE
  /\ xfer = NoTransfer
  /\ sent = <<>>
  /\ dev = OpenerAt("idle")
  /\ bus \in BusLists
  /\ handles = {}

NextDevice == open_find \/ load_file_failed \/ LoadSteps \/ open_loaded \/ open_rescan

SpecDevice == InitDevice /\ [][NextDevice]_vars

InFlightSet == {t \in Descriptors : InFlight(t)}

\* A step of the event-processing context inside a callback.
CallbackStep == cb.pc # "idle" /\ cb' # cb

\* The callback of a completed descriptor has not yet reached the decrement
\* (or the resubmission) that accounts for the completion.
Unretired == cb.pc \in {"completed", "resubmit", "cancelled", "failed", "fail_sub"}

\* The descriptors the counter is meant to count: those in flight and the
\* one whose completion is being handled and is not accounted for yet.
Live == InFlightSet \cup (IF Unretired THEN {cb.t} ELSE {})

(***************************************************************************)
(* Claims about the streaming engine                                       *)
(***************************************************************************)

\* C1: adc_start() on an engine whose status is not READY returns -1 at
\* once: it submits nothing and leaves status and active_transfers alone.
C1_StartRejected ==
  [][(adc_start_check /\ status # "READY")
       => /\ ctl'.pc = "idle" /\ ctl'.rv = -1
          /\ status' = status
          /\ active_transfers' = active_transfers
          /\ flight' = flight]_vars

C1_Witness ==
  /\ ctl.pc = "idle" /\ ctl.op = "start" /\ ctl.rv = -1 /\ ctl.from = "STREAMING"
  /\ status = "STREAMING" /\ active_transfers = num_frames

\* C2 as stated: after adc_stop() on a STREAMING engine, every step of the
\* callback of a completion delivered after it, whatever the transfer
\* status, that leaves the counter above 0 leaves the status CANCELLED.
C2_AnyCompletionKeepsCancelled ==
  [][(/\ ctl.op = "stop" /\ ctl.from = "STREAMING" /\ status = "CANCELLED"
      /\ cb.seen = "CANCELLED" /\ CallbackStep /\ active_transfers' > 0)
       => status' = "CANCELLED"]_vars

\* C2 amended: a completion with transfer status cancelled that leaves the
\* counter above 0 leaves the status as it is; the one that takes the
\* counter from 1 to 0 and finds the status CANCELLED sets READY; the status
\* goes from CANCELLED to READY only there, at most once per adc_stop() call.
C2_CancelledCompletions ==
  [][/\ (callback_cancelled /\ active_transfers' > 0) => (status' = status /\ cb' = CbIdle)
     /\ (callback_cancelled /\ active_transfers' = 0) => cb'.pc = "check_status"
     /\ (callback_check_status /\ status = "CANCELLED") => cb'.pc = "set_ready"
     /\ callback_set_ready => status' = "READY"
     /\ (status = "CANCELLED" /\ status' = "READY")
          => (cb.pc = "set_ready" /\ cb.st = "CANCELLED")
     /\ readied' <= 1]_vars

C2_Witness ==
  /\ ctl.op = "stop" /\ ctl.from = "STREAMING"
  /\ status = "READY" /\ readied = 1 /\ active_transfers = 0 /\ InFlightSet = {}

\* C3: once FAILED, the status never changes.
C3_FailedIsTerminal == [][status = "FAILED" => status' = "FAILED"]_vars

\* C4: active_transfers is always in [0, num_frames], and it equals the
\* number of descriptors in flight (demanded here only in the states where
\* neither context is between a submission or completion and the counter
\* update that accounts for it).
C4_ActiveCountsInFlight ==
  /\ active_transfers \in 0..num_frames
  /\ (ctl.pc # "start_add" /\ ~Unretired) => active_transfers = Cardinality(InFlightSet)

\* C5: an adc_start() whose submissions all succeed (and during which
\* libusb reports no error at all) returns with status STREAMING and
\* active_transfers = num_frames; after an adc_stop() (whose event flush
\* reports no error) and num_frames cancelled completions the counter is 0
\* and the status READY.
C5_StartStopCycle ==
  [][/\ (adc_start_set /\ ~faults) => (status' = "STREAMING" /\ active_transfers' = num_frames)
     /\ (drained' = num_frames /\ cb'.pc = "idle" /\ ctl'.pc = "idle" /\ ctl'.ret = "SUCCESS")
          => (active_transfers' = 0 /\ status' = "READY")]_vars

\* C6: a not-found cancellation result leaves the status as it is, in
\* adc_stop() and in the callback's failure path; any other cancellation
\* error in adc_stop() sets FAILED.
C6_NotFoundIsNotFatal ==
  [][/\ (adc_stop_cancel /\ ctl'.ret = "NOT_FOUND") => (status' = status /\ ctl'.pc # "stop_failed")
     /\ (adc_stop_cancel /\ ctl'.ret = "OTHER") => ctl'.pc = "stop_failed"
     /\ adc_stop_failed => status' = "FAILED"
     /\ (ctl.op = "stop" /\ status # "FAILED" /\ status' = "FAILED" /\ ctl' # ctl)
          => (ctl.ret = "OTHER" \/ ctl'.ret = "OTHER")
     /\ callback_fail_cancel => status' = status]_vars

C6_Witness ==
  /\ ctl.op = "stop" /\ ctl.pc = "stop_flush" /\ ctl.ret = "NOT_FOUND"
  /\ status = "CANCELLED"

\* C7: when submission i of adc_start() is the first to fail, adc_start()
\* returns -1 at once with status FAILED, having submitted nothing after i
\* and cancelled nothing, and active_transfers equals the number of live
\* descriptors (submitted, completion not yet accounted for).
C7_FirstSubmitFailure ==
  [][(adc_start_submit /\ IsError(ctl'.ret))
       => /\ ctl'.pc = "idle" /\ ctl'.rv = -1 /\ ctl'.i = ctl.i
          /\ status' = "FAILED"
          /\ flight' = flight
          /\ \A t \in Descriptors : t >= ctl.i => ~InFlight(t)'
          /\ active_transfers' = Cardinality(Live')]_vars

C7_Witness ==
  /\ ctl.pc = "idle" /\ ctl.op = "start" /\ ctl.rv = -1 /\ ctl.i = 2 /\ IsError(ctl.ret)
  /\ status = "FAILED" /\ flight[1] = "submitted" /\ active_transfers = 1

\* C8: adc_stop() called with no transfer active (and no flush error)
\* returns with the counter 0 and the engine READY again.
C8_QuietStopReturnsToReady ==
  (ctl.pc = "idle" /\ ctl.op = "stop" /\ ctl.quiet /\ ctl.ret = "SUCCESS")
    => (status = "READY" /\ active_transfers = 0)

(***************************************************************************)
(* C9: for a well-formed image (size >= 10240, correct header, sections    *)
(* that fit, zero-length terminator) validate_image returns 0 if and only  *)
(* if the sum mod 2^32 of the section data words equals the stored         *)
(* checksum word; so an accepted image with one data word changed is       *)
(* refused, and trailing bytes after the checksum do not refuse it.        *)
(***************************************************************************)
WellFormed == layout.header_ok /\ layout.fits /\ image_size >= MinImageSize

C9_ChecksumDecides ==
  (WellFormed /\ validate_ret # NotValidated) =>
     /\ validate_ret.ret = 0 <=> layout.wordsum = WordAt(image, layout.sum_at)
     /\ flipped => validate_ret.ret = -1

\* An image with trailing bytes was accepted, one data word of it was
\* changed, and it is refused for its checksum.
C9_Witness ==
  /\ WellFormed /\ layout.trailing /\ flipped
  /\ validate_ret.ret = -1 /\ validate_ret.why = "checksum does not match"
  /\ validate_ret.warning

(***************************************************************************)
(* Claims about transfer_image                                             *)
(***************************************************************************)
\* The transfers that carry section data, and the sections' byte ranges.
IsChunk(c) == c.data >= 0
SectionStart(j) == 4 * layout.sections[j].first
SectionEnd(j) == 4 * (layout.sections[j].first + layout.sections[j].len)

\* C11: every data transfer lies in one section, is 1..2048 bytes long and
\* exactly 2048 unless it ends the section, carries that section's start
\* address split into wValue (low 16 bits) and wIndex (high 16 bits), and
\* starts where the transfer before it ended or, that one having ended its
\* section, at the start of the next section; the first starts section 1;
\* when the last section is done the transfers cover every section.
C11_SectionChunks ==
  /\ \A i \in 1..Len(sent) :
       IsChunk(sent[i]) =>
         \E j \in 1..Len(layout.sections) :
           LET c == sent[i]
               s == layout.sections[j]
           IN /\ SectionStart(j) <= c.data /\ c.data + c.wLength <= SectionEnd(j)
              /\ c.wLength >= 1 /\ c.wLength <= 2048
              /\ c.wLength = 2048 \/ c.data + c.wLength = SectionEnd(j)
              /\ c.wValue = s.address % 65536
              /\ c.wIndex = s.address \div 65536
              /\ IF i = 1 THEN j = 1 /\ c.data = SectionStart(1)
                 ELSE /\ IsChunk(sent[i - 1])
                      /\ IF c.data = SectionStart(j)
                           THEN j > 1 /\ sent[i - 1].data + sent[i - 1].wLength = SectionEnd(j - 1)
                           ELSE sent[i - 1].data + sent[i - 1].wLength = c.data
  /\ xfer.pc = "entry" =>
       IF layout.sections = <<>> THEN sent = <<>>
       ELSE /\ sent # <<>>
            /\ sent[Len(sent)].data + sent[Len(sent)].wLength = SectionEnd(Len(layout.sections))

\* Three sections were sent, the last of them in five transfers.
C11_Witness ==
  /\ xfer.pc = "entry" /\ Len(layout.sections) = 3 /\ Len(sent) = 7
  /\ sent[3].wLength = 2048 /\ sent[7].wLength < 2048

\* C12: a data transfer that returned an error or fewer bytes than asked is
\* the last transfer issued, and transfer_image has returned -1.
C12_ChunkFailureStops ==
  \A i \in 1..Len(sent) :
    (IsChunk(sent[i]) /\ sent[i].ret # sent[i].wLength)
      => (i = Len(sent) /\ xfer.pc = "done" /\ xfer.rv = -1)

\* The second transfer of a section came back one byte short.
C12_Witness ==
  /\ xfer.pc = "done" /\ xfer.rv = -1 /\ Len(sent) >= 2
  /\ sent[Len(sent)].wLength = 2048 /\ sent[Len(sent)].ret = 2047
  /\ sent[Len(sent)].data > SectionStart(Len(layout.sections))

\* C13: a zero-length transfer is issued only as the last one, after the
\* data transfers of every section succeeded, and at the entry address; once
\* transfer_image has returned with every data transfer successful there is
\* exactly that one, and the return value is 0 whatever it returned.
C13_JumpToEntry ==
  /\ \A i \in 1..Len(sent) :
       ~IsChunk(sent[i]) =>
         /\ i = Len(sent) /\ xfer.pc = "done"
         /\ sent[i].wLength = 0
         /\ sent[i].wValue = layout.entry % 65536 /\ sent[i].wIndex = layout.entry \div 65536
         /\ \A k \in 1..(i - 1) : sent[k].ret = sent[k].wLength
         /\ IF layout.sections = <<>> THEN i = 1
            ELSE sent[i - 1].data + sent[i - 1].wLength = SectionEnd(Len(layout.sections))
  /\ (xfer.pc = "done" /\ \A i \in 1..Len(sent) : IsChunk(sent[i]) => sent[i].ret = sent[i].wLength)
       => /\ xfer.rv = 0
          /\ sent # <<>> /\ ~IsChunk(sent[Len(sent)])

\* Every section was written, the transfer at the entry address failed and
\* transfer_image returned 0.
C13_Witness ==
  /\ xfer.pc = "done" /\ xfer.rv = 0 /\ Len(sent) >= 3
  /\ sent[Len(sent)].wLength = 0 /\ sent[Len(sent)].ret = -1

(***************************************************************************)
(* C14: usb_device_open returns no handle of a device with the boot-loader *)
(* identity; when the device it found first has that identity it calls     *)
(* load_image exactly once and then looks for the device again, and it     *)
(* returns 0 when load_image failed, when the second search found no       *)
(* device or when the device found has the boot-loader identity still; a   *)
(* call that returned 0 left no handle open.                               *)
(***************************************************************************)
IsBootLoader(d) == d.vid = 1204 /\ d.pid = 243

C14_NoBootLoaderHandle ==
  dev.pc = "done" =>
    /\ dev.ret = "DEVICE" => (handles = {dev.this} /\ dev.this.pos # 0 /\ ~IsBootLoader(dev.this))
    /\ dev.ret = "NULL" => handles = {}
    /\ (dev.found # <<>> /\ IsBootLoader(dev.found[1])) =>
         /\ dev.loads = 1
         /\ dev.ret = "DEVICE" =>
              /\ dev.load_ret = 0
              /\ Len(dev.found) = 2 /\ dev.found[2] # NoDevice /\ ~IsBootLoader(dev.found[2])
              /\ dev.this.vid = dev.found[2].vid /\ dev.this.pid = dev.found[2].pid
    /\ (dev.found = <<>> \/ ~IsBootLoader(dev.found[1])) => dev.loads = 0

\* The boot loader was found, the image loaded, and the device found at the
\* rescan is the streamer.
C14_Witness ==
  /\ dev.pc = "done" /\ dev.ret = "DEVICE" /\ dev.loads = 1 /\ Len(dev.found) = 2
  /\ IsBootLoader(dev.found[1]) /\ dev.this.pid = 241 /\ xfer.pc = "done"

(***************************************************************************)
(* Claims about adc_open_async                                             *)
(***************************************************************************)
MaxXferSize(a) == a.max_packet_size * a.max_burst

Rejected == open_call.ret = "NULL" /\ status = "OFF" /\ devmem = {}

\* An engine as adc_open_async is to return it for the call a.
EngineFor(a) ==
  /\ open_call.ret = "ENGINE"
  /\ status = "READY"
  /\ active_transfers = 0
  /\ num_frames = EffectiveFrames(a.num_frames)
  /\ frame_size = EffectiveFrameSize(a.frame_size)
  /\ Len(frames) = num_frames /\ Len(transfers) = num_frames
  /\ Cardinality(devmem) = num_frames
  /\ \A i \in 1..num_frames :
       /\ frames[i] \in devmem
       /\ transfers[i].buffer = frames[i]
       /\ transfers[i].length = frame_size
       /\ transfers[i].endpoint = a.endpoint
       /\ \A j \in 1..num_frames : frames[i] = frames[j] => i = j

\* The state is the one an adc_open_async call left.
JustOpened == open_call.ret # "NONE" /\ (open_call.ret = "ENGINE" => status # "OFF")

\* C10 as stated: the call fails whenever the frame size (0 read as 16384)
\* is not a multiple of max_packet_size * max_burst, and otherwise, when
\* no allocation fails, returns a READY engine with num_frames (0 read as
\* 64) buffers and descriptors, descriptor i on buffer i, counter 0.
C10_OpenAsync ==
  JustOpened =>
    LET a == open_call.args
    IN IF EffectiveFrameSize(a.frame_size) % MaxXferSize(a) # 0 THEN Rejected
       ELSE a.fail_at = 0 => EngineFor(a)

\* C10 amended: the same, for a device that has a bulk-in endpoint; on a
\* device without one the call fails too.
C10_OpenAsyncWithEndpoint ==
  JustOpened =>
    LET a == open_call.args
    IN IF EffectiveFrameSize(a.frame_size) % MaxXferSize(a) # 0 \/ a.endpoint = 0 THEN Rejected
       ELSE a.fail_at = 0 => EngineFor(a)

C10_Witness ==
  /\ open_call.ret = "ENGINE" /\ status = "READY"
  /\ open_call.args.frame_size = 0 /\ open_call.args.num_frames = 0
  /\ open_call.args.max_packet_size = 1024 /\ open_call.args.max_burst = 16
  /\ Len(frames) = DEFAULT_ADC_NUM_FRAMES /\ frame_size = DEFAULT_ADC_FRAME_SIZE


\* A step of the event-processing context: the callback moves.
Dispatches == cb' # cb

\* The descriptors a step puts in flight.
Submitted == {t \in Descriptors : ~InFlight(t) /\ flight'[t] = "submitted"}

(***************************************************************************)
(* C15: a completion that is neither completed nor cancelled sets FAILED,  *)
(* takes one from the counter, is not delivered to the sample callback,    *)
(* and by the time the callback returns a cancellation was requested for   *)
(* every other descriptor of the ring.                                     *)
(***************************************************************************)
C15_ErrorCancelsRing ==
  [][(Dispatches /\ cb.st = "ERROR") =>
       /\ cb.pc = "failed" => status' = "FAILED"
       /\ cb.pc = "fail_sub" => active_transfers' = active_transfers - 1
       /\ cb.pc # "fail_sub" => active_transfers' = active_transfers
       /\ ~cb'.delivered
       /\ (cb.pc = "fail_cancel" /\ cb'.pc = "idle") => (Descriptors \ {cb.t}) \subseteq asked']_vars

(***************************************************************************)
(* C16: the sample callback is called for an event exactly when the        *)
(* transfer completed and the status read at line 255 is STREAMING; the    *)
(* callback resubmits that descriptor, and no other, after the call, and a *)
(* resubmission that succeeds leaves the counter as it was; a completed    *)
(* transfer seen while not STREAMING is not delivered and not resubmitted. *)
(***************************************************************************)
C16_DeliveredWhileStreaming ==
  [][Dispatches =>
       /\ (cb'.delivered /\ ~cb.delivered) <=>
            (cb.pc = "completed" /\ cb.st = "COMPLETED" /\ status = "STREAMING")
       /\ cb'.delivered => cb'.pc \in {"resubmit", "failed", "fail_sub", "fail_cancel"}
       /\ cb.pc = "resubmit" => cb.delivered
       /\ \A t \in Submitted :
            /\ t = cb.t /\ cb.pc = "resubmit" /\ cb.delivered /\ cb.st = "COMPLETED"
            /\ active_transfers' = active_transfers
            /\ cb'.pc = "idle"
       /\ (cb.pc = "completed" /\ status # "STREAMING") =>
            (~cb'.delivered /\ cb'.pc = "failed" /\ Submitted = {})
       /\ (cb.pc \in {"failed", "fail_sub", "fail_cancel"}) => Submitted = {}]_vars

\* The sample callback has returned for a descriptor of a full ring and the
\* resubmission is next.
C16_Witness ==
  /\ cb.pc = "resubmit" /\ cb.delivered /\ num_frames >= 2
  /\ active_transfers = num_frames /\ status = "STREAMING"

(***************************************************************************)
(* C17: when the resubmission of a delivered descriptor fails, the         *)
(* callback goes on to line 277: it sets FAILED, then takes exactly one    *)
(* from the counter, and the descriptor stays out of flight.               *)
(***************************************************************************)
C17_ResubmitFailure ==
  [][Dispatches =>
       /\ (cb.pc = "resubmit" /\ flight'[cb.t] # "submitted") =>
            (cb'.pc = "failed" /\ cb'.t = cb.t /\ active_transfers' = active_transfers)
       /\ (cb.pc = "failed" /\ cb.delivered) =>
            (status' = "FAILED" /\ cb'.pc = "fail_sub" /\ active_transfers' = active_transfers)
       /\ (cb.pc = "fail_sub" /\ cb.delivered) =>
            (active_transfers' = active_transfers - 1 /\ cb'.pc \in {"fail_cancel", "idle"})
       /\ (cb.pc = "fail_cancel" /\ cb.delivered) => active_transfers' = active_transfers
       /\ (cb.pc \in {"failed", "fail_sub", "fail_cancel"} /\ cb.delivered) =>
            (flight[cb.t] = "idle" /\ flight'[cb.t] = "idle")]_vars

\* The resubmission failed with the whole ring submitted; FAILED is set
\* and the counter is one less.
C17_Witness ==
  /\ cb.pc = "fail_cancel" /\ cb.delivered /\ status = "FAILED"
  /\ num_frames >= 2 /\ active_transfers = num_frames - 1 /\ flight[cb.t] = "idle"

(***************************************************************************)
(* C18: adc_start and the callback call libusb_submit_transfer only for a  *)
(* descriptor that is not in flight; adc_start only for one whose callback *)
(* is not running; and the status is READY only when no descriptor is in   *)
(* flight.                                                                 *)
(***************************************************************************)
C18_NoSubmitInFlight ==
  [][/\ (ctl.pc = "start_submit" /\ ctl' # ctl) =>
          (~InFlight(ctl.i) /\ ~(cb.pc # "idle" /\ cb.t = ctl.i))
     /\ (cb.pc = "resubmit" /\ Dispatches) => ~InFlight(cb.t)
     /\ \A t \in Submitted :
          \/ ctl.pc = "start_submit" /\ ctl.i = t /\ ctl' # ctl
          \/ cb.pc = "resubmit" /\ cb.t = t /\ Dispatches
     /\ status' = "READY" => \A t \in Descriptors : flight'[t] = "idle"]_vars

\* adc_start submits again after a stop drained the ring back to READY.
C18_Witness ==
  /\ ctl.op = "start" /\ ctl.pc = "start_submit" /\ ctl.i >= 2
  /\ readied >= 1 /\ status = "READY" /\ flight[1] = "submitted"

(***************************************************************************)
(* C19: adc_stop writes CANCELLED before its first cancellation request,   *)
(* and from that write on no callback puts a descriptor in flight.         *)
(***************************************************************************)
C19_NoSubmitAfterStop ==
  [][/\ (ctl.pc = "idle" /\ ctl'.op = "stop" /\ ctl' # ctl) =>
          (status' = "CANCELLED" /\ flight' = flight)
     /\ (ctl.op = "stop" /\ Dispatches) => Submitted = {}]_vars

(***************************************************************************)
(* C20: when a callback took the failure path between adc_start's first    *)
(* submission and its return, the status is FAILED when adc_start returns. *)
(***************************************************************************)
C20_FailureNotLost ==
  [][(ctl.op = "start" /\ ctl.pc # "idle" /\ ctl'.pc = "idle" /\ failed_in_start) =>
       status' = "FAILED"]_vars


(***************************************************************************)
(* C21: load_image sends control transfers only for an image that          *)
(* validate_image accepted: while the image is not validated, and once it  *)
(* is rejected (too small, bad header, section too big, checksum           *)
(* mismatch), no control transfer was sent, transfer_image is not called,  *)
(* and for a rejected image load_image has returned -1.                    *)
(***************************************************************************)
Rejections ==
  {"image file is too small", "image header does not start with 'CY'",
   "I2C config is not set to 0x1C", "image type is not binary",
   "loadSz is too big", "checksum does not match"}

C21_ValidatedBeforeTransfer ==
  /\ validate_ret.ret # 0 => (sent = <<>> /\ xfer = NoTransfer)
  /\ (sent # <<>> \/ xfer.pc # "none") => (validate_ret.ret = 0 /\ validate_ret.why = "")
  /\ validate_ret.ret = -1 =>
       (validate_ret.why \in Rejections /\ LoadReturned /\ load_image_ret = -1)
  /\ validate_ret.ret \in {1, 0, -1}

\* A file with sections that was accepted, then altered, is rejected for
\* its checksum when loaded again.
C21_Witness ==
  /\ validate_ret.ret = -1 /\ validate_ret.why = "checksum does not match"
  /\ flipped /\ Len(layout.sections) >= 2 /\ sent = <<>> /\ load_image_ret = -1


(***************************************************************************)
(* C22: validate_image reads no byte at or after image + size, and an      *)
(* image whose last section leaves no room for the terminator, the entry   *)
(* address and the checksum word is refused as too big with nothing read   *)
(* past that section's start address word.                                 *)
(***************************************************************************)
C22_ReadsInsideBuffer ==
  validate_ret # NotValidated =>
    /\ validate_ret.read <= image_size
    /\ (layout.header_ok /\ image_size >= MinImageSize /\ ~layout.fits) =>
         /\ validate_ret.ret = -1 /\ validate_ret.why = "loadSz is too big"
         /\ validate_ret.read = 4 * layout.sections[Len(layout.sections)].first


(***************************************************************************)
(* C23: when libusb_dev_mem_alloc fails for frames[k], adc_open_async      *)
(* returns 0 with the k-1 buffers it had allocated freed again: no buffer  *)
(* is left allocated, no engine and no descriptors exist; and no failed    *)
(* call leaves a buffer allocated.  (The table of frame pointers, which is *)
(* not a transfer buffer, is what the call leaves on the heap.)            *)
(***************************************************************************)
AllocationFailed(a) ==
  /\ a.endpoint # 0
  /\ EffectiveFrameSize(a.frame_size) % MaxXferSize(a) = 0
  /\ a.fail_at \in 1..EffectiveFrames(a.num_frames)

C23_AllocationFailure ==
  /\ (open_call.ret # "NONE" /\ AllocationFailed(open_call.args)) =>
       /\ open_call.ret = "NULL" /\ status = "OFF"
       /\ devmem = {}
       /\ num_frames = 0 /\ frames = <<>> /\ transfers = <<>>
       /\ "this" \notin open_call.heap /\ "transfers" \notin open_call.heap
  /\ open_call.ret = "NULL" => devmem = {}

\* The third allocation failed: two buffers had been allocated.
C23_Witness ==
  /\ open_call.ret = "NULL" /\ AllocationFailed(open_call.args)
  /\ open_call.args.fail_at = 3 /\ open_call.heap = {"frames"} /\ devmem = {}

====
